---- MODULE Spec2Model ----
(***************************************************************************)
(* A model of resources/lib/itvx.py, the data-acquisition layer of the     *)
(* ITVX addon: get_page_data, get_live_channels, main_page_items,          *)
(* episodes, categories, category_content,                                 *)
(* get_playlist_url_from_episode_page and search.                          *)
(*                                                                         *)
(* Python strings that the code only compares are TLA+ strings; strings    *)
(* the code takes apart or builds (urls, templates, production ids) are    *)
(* sequences of tokens.  Dictionaries are functions whose DOMAIN is the    *)
(* set of keys.  Calls into modules that are outside this file (parsex,    *)
(* utils) are kept as uninterpreted terms <<name, arguments>>.             *)
(***************************************************************************)
EXTENDS Integers, Sequences, FiniteSets, TLC

VARIABLES
    now,              \* wall clock, seconds
    cached_programs,  \* the module-level dictionary of line 186
    lastFetch,        \* history: the last successful fetch of get_page_data
    call,             \* the outcome of the last run-to-completion operation
    live,             \* the frame of get_live_channels
    gens              \* the frames of the search generators the host holds

vars == <<now, cached_programs, lastFetch, call, live, gens>>

----------------------------------------------------------------------------
(* Bounds of the model *)

MaxTime == 1200
TickStep == 300
MaxSeries == 2
MaxEpisodes == 1
MaxProgrammes == 2
MaxItems == 2
MaxChannels == 2
MaxSchedule == 2
MaxResults == 2

(* Program constants *)

CACHE_TIME == 600

----------------------------------------------------------------------------
(* Generic helpers *)

None == "None"

RECURSIVE SeqsUpTo(_, _)
SeqsUpTo(S, n) ==
    IF n = 0 THEN {<<>>}
    ELSE LET shorter == SeqsUpTo(S, n - 1)
         IN  shorter \cup {Append(s, x) : s \in {t \in shorter : Len(t) = n - 1}, x \in S}

MapSeq(F(_), s) == [i \in 1..Len(s) |-> F(s[i])]

\* d[k] = v, as a dictionary assignment
Put(d, k, v) == [x \in DOMAIN d \cup {k} |-> IF x = k THEN v ELSE d[x]]

\* d.pop(k) / del d[k]
Without(d, k) == [x \in DOMAIN d \ {k} |-> d[x]]

\* d.get(k, default)
Get(d, k, default) == IF k \in DOMAIN d THEN d[k] ELSE default

\* the outcomes of a fetch or of an operation
Errors == {"HTTPError", "FetchError"}
Raised(e) == [status |-> "raised", error |-> e]
Returned(v) == [status |-> "returned", value |-> v]
IsRaised(o) == o.status = "raised"

----------------------------------------------------------------------------
(* get_page_data, lines 33-37 *)

HTTPS == "https://"
ITV_HOST == <<HTTPS, "www.itv.com">>

startswith(s, prefix) ==
    /\ Len(s) >= Len(prefix)
    /\ SubSeq(s, 1, Len(prefix)) = prefix

\* lines 34-35: the url the document is fetched from
PageUrl(url) == IF ~startswith(url, <<HTTPS>>) THEN ITV_HOST \o url ELSE url

\* An HTML document, reduced to what the module scrapes from it: the JSON of
\* its embedded script block and its data-video-id attribute.
scrape_json(html_doc) == html_doc.script

\* resp is the outcome of fetch.get_document(PageUrl(url))
get_page_data(url, resp) ==
    IF IsRaised(resp) THEN resp ELSE Returned(scrape_json(resp.value))

PageRequest(url) == [fn |-> "get_document", url |-> PageUrl(url)]

\* the document of a page: its script block and its data-video-id attributes
Document(json, ids) == [script |-> json, video_ids |-> ids]

----------------------------------------------------------------------------
(* String formatting *)

\* str.format with keyword arguments on a template of tokens: every token
\* that is a replacement field of props is replaced by its value
FormatKw(template, props) ==
    [i \in 1..Len(template) |->
        IF template[i] \in DOMAIN props THEN props[template[i]] ELSE template[i]]

\* lines 236 and 257
SEARCH_IMG_PROPS ==
    [w \in {"{width}", "{height}", "{quality}", "{blur}", "{bg}"} |->
        CASE w = "{width}" -> "960"
          [] w = "{height}" -> "540"
          [] w = "{quality}" -> "80"
          [] w = "{blur}" -> "0"
          [] w = "{bg}" -> "false"]

\* str.format with one positional argument: the fields "{}" and "{0}"
FormatPos(template, arg) ==
    [i \in 1..Len(template) |->
        IF template[i] \in {"{}", "{0}"} THEN arg ELSE template[i]]

\* str.lower, token by token
Lower(tok) ==
    CASE tok = "The " -> "the "
      [] tok = "Chase" -> "chase"
      [] tok = "Vera" -> "vera"
      [] tok = "Series" -> "series"
      [] OTHER -> tok

lower(s) == [i \in 1..Len(s) |-> Lower(s[i])]

\* str.replace(old, new) on single-character tokens
replace(s, old, new) == [i \in 1..Len(s) |-> IF s[i] = old THEN new ELSE s[i]]

----------------------------------------------------------------------------
(* main_page_items, lines 95-98 *)

MAIN_URL == <<HTTPS, "www.itv.com">>

parse_hero_content(hero_data) == <<"parsex.parse_hero_content", hero_data>>

\* A generator run to exhaustion: what it yielded and how it ended
Exhausted(items) == [status |-> "exhausted", error |-> None, yielded |-> items]
GenRaised(e, items) == [status |-> "raised", error |-> e, yielded |-> items]

main_page_items(resp) ==
    LET main_data == get_page_data(MAIN_URL, resp)
    IN  IF IsRaised(main_data) THEN GenRaised(main_data.error, <<>>)
        ELSE Exhausted(MapSeq(parse_hero_content, main_data.value.heroContent))

----------------------------------------------------------------------------
(* episodes, lines 101-133 *)

IMG_PROPS_THUMB == "parsex.IMG_PROPS_THUMB"
IMG_PROPS_FANART == "parsex.IMG_PROPS_FANART"
IMG_PROPS_POSTER == "parsex.IMG_PROPS_POSTER"

parse_title(episode, brand_fanart) == <<"parsex.parse_title", episode, brand_fanart>>

\* SeriesParams with the url get_page_data fetched in place of the argument
SeriesParamsPageUrl(url, series_idx) == [url |-> PageUrl(url), series_idx |-> series_idx]

\* line 129
SeriesParams(url, series_idx) == [url |-> url, series_idx |-> series_idx]

\* line 130
SeriesEpisodes(series, brand_fanart) ==
    [i \in 1..Len(series.episodes) |-> parse_title(series.episodes[i], brand_fanart)]

\* lines 120-131: the object of one series
SeriesObj(series, url, brand_title, brand_thumb, brand_fanart, brand_description) ==
    LET title == series.title
        series_idx == series.seriesNumber
    IN  [label |-> title,
         art |-> [thumb |-> brand_thumb, fanart |-> brand_fanart],
         info |-> [title |-> <<"[B]">> \o brand_title \o <<" - ">> \o series.title \o <<"[/B]">>,
                   plot |-> brand_description \o <<"\n\n">> \o title
                            \o <<" - ", ToString(series.seriesAvailableEpisodeCount), " episodes">>],
         params |-> SeriesParams(url, series_idx),
         episodes |-> SeriesEpisodes(series, brand_fanart)]

episodes(url, resp) ==
    LET page == get_page_data(url, resp)
    IN  IF IsRaised(page) THEN page
        ELSE LET brand_data == page.value.title.brand
                 brand_title == brand_data.title
                 brand_thumb == FormatPos(brand_data.title, IMG_PROPS_THUMB)
                 brand_fanart == FormatPos(brand_data.title, IMG_PROPS_FANART)
                 brand_description == Get(brand_data.synopses, "ninety", <<>>)
                 series_data == brand_data.series
             IN  IF series_data = <<>> THEN Returned(<<>>)
                 ELSE Returned([i \in 1..Len(series_data) |->
                         SeriesObj(series_data[i], url, brand_title, brand_thumb,
                                   brand_fanart, brand_description)])

----------------------------------------------------------------------------
(* categories, lines 136-140 *)

CATEGORIES_URL == <<HTTPS, "www.itv.com", "/watch/categories">>

CategoryItem(cat) == [label |-> cat.name, params |-> [path |-> cat.url]]

\* The fetch is made by the call; the generator expression it returns is
\* read afterwards.
categories(resp) ==
    LET data == get_page_data(CATEGORIES_URL, resp)
    IN  IF IsRaised(data) THEN GenRaised(data.error, <<>>)
        ELSE Exhausted(MapSeq(CategoryItem, data.value.subnav.items))

----------------------------------------------------------------------------
(* category_content, lines 143-183 *)

PREMIUM_MARKER == "[COLOR yellow]X premium[/COLOR]"

duration_2_seconds(content_info) == <<"utils.duration_2_seconds", content_info>>
build_url(args) == <<"parsex.build_url", args>>
format_image(template, props) == <<"format", template, props>>

\* 'FREE' in prog['tier']
IsFree(prog) == \E i \in 1..Len(prog.tier) : prog.tier[i] = "FREE"

\* Skipped without the test of hide_payed
SkippedWhenNotFree(prog, hide_payed) == ~IsFree(prog)

\* lines 150-183: is a programme skipped (the continue of line 158)
Skipped(prog, hide_payed) == ~IsFree(prog) /\ hide_payed

\* lines 150-183: the item of a programme that is not skipped
ProgrammeItem(prog, category) ==
    LET content_info == prog.contentInfo
        is_playable == ~startswith(lower(content_info), <<"series">>)
        title == prog.title
        plot == IF IsFree(prog) THEN prog.description
                ELSE prog.description \o <<"\n\n">> \o <<PREMIUM_MARKER>>
        sort_title == lower(title)
        art == [thumb |-> format_image(prog.imageTemplate, IMG_PROPS_THUMB),
                fanart |-> format_image(prog.imageTemplate, IMG_PROPS_FANART)]
        info == [title |-> IF is_playable THEN title
                           ELSE <<"[B]">> \o title \o <<"[/B]", " ">> \o content_info,
                 plot |-> plot,
                 sorttitle |-> IF startswith(sort_title, <<"the ">>)
                               THEN Tail(sort_title) ELSE sort_title]
        programme_item ==
            [label |-> title,
             art |-> IF category = "films"
                     THEN Put(art, "poster", format_image(prog.imageTemplate, IMG_PROPS_POSTER))
                     ELSE art,
             info |-> IF is_playable
                      THEN Put(info, "duration", duration_2_seconds(content_info))
                      ELSE info,
             params |-> IF is_playable
                        THEN [url |-> build_url(<<title, prog.encodedProgrammeId.letterA>>)]
                        ELSE [url |-> build_url(<<title, prog.encodedProgrammeId.letterA,
                                                  prog.encodedEpisodeId.letterA>>)]]
    IN  [playable |-> is_playable, show |-> programme_item]

RECURSIVE CategoryLoop(_, _, _)
CategoryLoop(progr_list, category, hide_payed) ==
    IF progr_list = <<>> THEN <<>>
    ELSE (IF Skipped(Head(progr_list), hide_payed) THEN <<>>
          ELSE <<ProgrammeItem(Head(progr_list), category)>>)
         \o CategoryLoop(Tail(progr_list), category, hide_payed)

category_content(url, hide_payed, resp) ==
    LET cat_data == get_page_data(url, resp)
    IN  IF IsRaised(cat_data) THEN GenRaised(cat_data.error, <<>>)
        ELSE LET category == cat_data.value.category.pathSegment
                 progr_list == cat_data.value.programmes
             IN  Exhausted(CategoryLoop(progr_list, category, hide_payed))

----------------------------------------------------------------------------
(* get_playlist_url_from_episode_page, lines 190-209 *)

\* line 208: re.search(...)[1]; subscripting the None of a failed search
\* raises TypeError
get_playlist_url_from_episode_page(page_url, resp) ==
    IF IsRaised(resp) THEN resp
    ELSE LET html_doc == resp.value
             name == <<>>
         IN  IF html_doc.video_ids = <<>> THEN Raised("TypeError")
             ELSE Returned(<<Head(html_doc.video_ids), name>>)

PlaylistPageRequest(page_url) == [fn |-> "get_document", url |-> page_url]

----------------------------------------------------------------------------
(* get_live_channels, lines 40-92 *)

\* history: how the last fetch of the call ended
Note(what, resp) ==
    [what |-> what, status |-> resp.status,
     error |-> IF IsRaised(resp) THEN resp.error ELSE None]

Request(what) == [ev |-> "request", what |-> what]
Response(what) == [ev |-> "response", what |-> what]

\* The start of a programme as the text 'YYYY-MM-DDTHH:MM:SS' followed by a
\* fraction and zone; start[:19] (line 81) drops what follows the seconds.
\* Lines 83 and 89: the start as UTC, shown as HH:MM in the local zone,
\* which is local_tz minutes east of UTC.
TwoDigits(n) == <<ToString(n \div 10), ToString(n % 10)>>

StartTime(start, local_tz) ==
    LET minutes == (start.h * 60 + start.m + local_tz) % 1440
    IN  TwoDigits(minutes \div 60) \o <<":">> \o TwoDigits(minutes % 60)

\* lines 76-90: the entry of one of the slots now and next
ProgramEntry(prog, local_tz) ==
    [programme_details |->
        IF prog.detailedDisplayTitle # <<>>
        THEN prog.displayTitle \o <<": ">> \o prog.detailedDisplayTitle
        ELSE prog.displayTitle,
     programmeTitle |-> prog.displayTitle,
     orig_start |-> None,
     startTime |-> StartTime(prog.start, local_tz)]

\* lines 74-91
ProgramsList(slots, local_tz) ==
    <<ProgramEntry(slots.now, local_tz), ProgramEntry(slots.next, local_tz)>>

\* FirstMatch without the break of line 69: the last matching entry wins
LastMatch(main_schedule, chan_id) ==
    LET hits == {i \in 1..Len(main_schedule) : main_schedule[i].channel.name = chan_id}
    IN  IF hits = {} THEN 0 ELSE CHOOSE i \in hits : \A j \in hits : i >= j

\* lines 65-69: the index of the first entry of the main schedule whose
\* channel name is chan_id, 0 when there is none
FirstMatch(main_schedule, chan_id) ==
    LET hits == {i \in 1..Len(main_schedule) : main_schedule[i].channel.name = chan_id}
    IN  IF hits = {} THEN 0 ELSE CHOOSE i \in hits : \A j \in hits : i <= j

\* lines 63-69: the channel after the look-up in the main schedule
WithMainSchedule(channel, main_schedule) ==
    IF channel.channelType = "simulcast"
    THEN LET m == FirstMatch(main_schedule, channel.id)
         IN  IF m = 0 THEN channel ELSE Put(channel, "slot", main_schedule[m].slot)
    ELSE channel

\* line 70: channel.get('slot') is truthy
HasSchedule(channel) == "slot" \in DOMAIN channel /\ channel.slot # <<>>

\* ProcessChannel reading channel['slots'] where line 60 pops it
ProcessChannelKeepSlots(channel, fanart_url, main_schedule, local_tz) ==
    LET c1 == Put(channel, "backdrop", fanart_url)
        slots == c1.slots
        c3 == WithMainSchedule(c1, main_schedule)
    IN  IF c3.channelType = "simulcast" /\ HasSchedule(c3) THEN c3
        ELSE Put(c3, "slot", ProgramsList(slots, local_tz))

\* lines 59-91: one pass of the loop over the channels
ProcessChannel(channel, fanart_url, main_schedule, local_tz) ==
    LET c1 == Put(channel, "backdrop", fanart_url)
        slots == c1.slots
        c2 == Without(c1, "slots")
        c3 == WithMainSchedule(c2, main_schedule)
    IN  IF c3.channelType = "simulcast" /\ HasSchedule(c3) THEN c3
        ELSE Put(c3, "slot", ProgramsList(slots, local_tz))

----------------------------------------------------------------------------
(* search, lines 213-274 *)

JsonNull == [null |-> TRUE]
Unbound == [unbound |-> TRUE]

PRODUCTIONS_URL ==
    <<"https://discovery.hubsvc.itv.com/platform/itvonline/dotcom/productions?programmeId=",
      "{}",
      "&features=aes,clearkey,fairplay,hls,mpeg-dash,outband-webvtt,playready,widevine&broadcaster=itv">>

PLAYLIST_URL == <<"https://magni.itv.com/playlist/itvonline/ITV/">>

\* lines 229-244
parse_programme(prg_data) ==
    LET prog_name == prg_data.programmeTitle
        img_url == prg_data.latestAvailableEpisode.imageHref
    IN  [entity_type |-> "programme",
         label |-> prog_name,
         art |-> [thumb |-> FormatKw(img_url, SEARCH_IMG_PROPS)],
         info |-> [plot |-> Get(prg_data, "synopsis", None),
                   title |-> <<"[B]">> \o prog_name \o <<"[/B]", " - ">>
                             \o Get(prg_data, "totalAvailableEpisodes", <<>>)
                             \o <<" episodes">>],
         params |-> [url |-> FormatPos(PRODUCTIONS_URL, prg_data.legacyId.apiEncoded),
                     name |-> prog_name]]

\* lines 246-262.  prg_data is the argument; program_data is the variable of
\* the enclosing call of search, read when parse_special runs.
parse_special(prg_data, program_data) ==
    LET prog_name == program_data.specialTitle
        img_url == program_data.imageHref
        api_prod_id == replace(replace(prg_data.productionId, "/", "_"), "#", ".")
    IN  [entity_type |-> "special",
         label |-> prog_name,
         art |-> [thumb |-> FormatKw(img_url, SEARCH_IMG_PROPS)],
         info |-> [plot |-> Get(prg_data, "synopsis", None),
                   title |-> prog_name],
         params |-> [url |-> PLAYLIST_URL \o api_prod_id,
                     name |-> prog_name]]

\* The frame of one call of search: a generator object.
\*   state: "none" (no generator), "created" (called, no code has run),
\*          "suspended" (at a yield), "finished", "raised"
NoGen ==
    [state |-> "none", requests |-> <<>>, fetch |-> [status |-> "none"], results |-> <<>>, idx |-> 0,
     program_data |-> Unbound, entity_type |-> "unbound",
     yielded |-> <<>>, sources |-> <<>>, warned |-> <<>>, error |-> None]

\* LoopBody with a break in place of the continue of line 274
LoopBodyBreak(frame, result) ==
    LET program_data == result.data
        entity_type == result.entityType
        f == [frame EXCEPT !.program_data = program_data, !.entity_type = entity_type]
    IN  IF entity_type = "programme"
        THEN [f EXCEPT !.state = "suspended",
                       !.yielded = Append(@, parse_programme(f.program_data)),
                       !.sources = Append(@, f.idx)]
        ELSE IF entity_type = "special"
        THEN [f EXCEPT !.state = "suspended",
                       !.yielded = Append(@, parse_special(f.program_data, f.program_data)),
                       !.sources = Append(@, f.idx)]
        ELSE [f EXCEPT !.warned = Append(@, entity_type), !.idx = Len(f.results)]

\* LoopBody with the result's data passed to the parsers directly and
\* program_data assigned only after the yield, so that parse_special reads
\* the program_data of the pass before
LoopBodyStaleCell(frame, result) ==
    LET entity_type == result.entityType
        cell == IF frame.program_data = Unbound THEN result.data ELSE frame.program_data
        stale == IF "specialTitle" \in DOMAIN cell THEN cell ELSE result.data
        f == [frame EXCEPT !.program_data = result.data, !.entity_type = entity_type]
    IN  IF entity_type = "programme"
        THEN [f EXCEPT !.state = "suspended",
                       !.yielded = Append(@, parse_programme(result.data)),
                       !.sources = Append(@, f.idx)]
        ELSE IF entity_type = "special"
        THEN [f EXCEPT !.state = "suspended",
                       !.yielded = Append(@, parse_special(result.data, stale)),
                       !.sources = Append(@, f.idx)]
        ELSE [f EXCEPT !.warned = Append(@, entity_type)]

\* lines 264-274: the body of the loop for one result.  sources records, for
\* every item yielded, the position of the result the loop was at.
LoopBody(frame, result) ==
    LET program_data == result.data
        entity_type == result.entityType
        f == [frame EXCEPT !.program_data = program_data, !.entity_type = entity_type]
    IN  IF entity_type = "programme"
        THEN [f EXCEPT !.state = "suspended",
                       !.yielded = Append(@, parse_programme(f.program_data)),
                       !.sources = Append(@, f.idx)]
        ELSE IF entity_type = "special"
        THEN [f EXCEPT !.state = "suspended",
                       !.yielded = Append(@, parse_special(f.program_data, f.program_data)),
                       !.sources = Append(@, f.idx)]
        ELSE [f EXCEPT !.warned = Append(@, entity_type)]

\* line 264: the loop runs on until a yield suspends it or the results end
RECURSIVE Resume(_)
Resume(frame) ==
    IF frame.idx = Len(frame.results) THEN [frame EXCEPT !.state = "finished"]
    ELSE LET f == LoopBody([frame EXCEPT !.idx = @ + 1, !.state = "running"],
                           frame.results[frame.idx + 1])
         IN  IF f.state = "suspended" THEN f ELSE Resume(f)

SearchRequest(search_term) ==
    [fn |-> "get_json", url |-> "https://textsearch.prd.oasvc.itv.com/search",
     query |-> search_term]

\* SearchStart without the test of lines 224-225: data.get on None raises
SearchStartNoNoneTest(frame, search_term, resp) ==
    LET f == [frame EXCEPT !.requests = Append(@, SearchRequest(search_term)),
                           !.fetch = resp]
    IN  IF IsRaised(resp) THEN [f EXCEPT !.state = "raised", !.error = resp.error]
        ELSE LET data == resp.value
             IN  IF data = JsonNull THEN [f EXCEPT !.state = "raised", !.error = "AttributeError"]
                 ELSE IF "results" \notin DOMAIN data
                 THEN [f EXCEPT !.state = "raised", !.error = "TypeError"]
                 ELSE Resume([f EXCEPT !.results = data.results])

\* SearchStart with the fetch in a try block that answers a failure with no
\* results
SearchStartCatch(frame, search_term, resp) ==
    LET f == [frame EXCEPT !.requests = Append(@, SearchRequest(search_term)),
                           !.fetch = resp]
    IN  IF IsRaised(resp) THEN [f EXCEPT !.state = "finished"]
        ELSE LET data == resp.value
             IN  IF data = JsonNull THEN [f EXCEPT !.state = "finished"]
                 ELSE IF "results" \notin DOMAIN data
                 THEN [f EXCEPT !.state = "raised", !.error = "TypeError"]
                 ELSE Resume([f EXCEPT !.results = data.results])

\* lines 214-227: the first next() of the generator runs the fetch; resp is
\* the outcome of fetch.get_json.  Iterating over the None of a response
\* without 'results' raises TypeError.
SearchStart(frame, search_term, resp) ==
    LET f == [frame EXCEPT !.requests = Append(@, SearchRequest(search_term)),
                           !.fetch = resp]
    IN  IF IsRaised(resp) THEN [f EXCEPT !.state = "raised", !.error = resp.error]
        ELSE LET data == resp.value
             IN  IF data = JsonNull THEN [f EXCEPT !.state = "finished"]
                 ELSE IF "results" \notin DOMAIN data
                 THEN [f EXCEPT !.state = "raised", !.error = "TypeError"]
                 ELSE Resume([f EXCEPT !.results = data.results])

----------------------------------------------------------------------------
(* The inputs: what the host passes in and what the fetches answer *)

Responses(values) == {Raised(e) : e \in Errors} \cup {Returned(v) : v \in values}

PageUrls ==
    {<<"/watch/categories">>, <<HTTPS, "www.itv.com", "/watch/categories">>,
     <<"/watch/marple">>}

Heroes == {"hero1", "hero2"}
HeroDocs == {Document([heroContent |-> h], <<>>) : h \in SeqsUpTo(Heroes, MaxItems)}

Cats ==
    {[name |-> "Drama", url |-> "/watch/categories/drama"],
     [name |-> "Films", url |-> "/watch/categories/films"]}
CategoriesDocs ==
    {Document([subnav |-> [items |-> c]], <<>>) : c \in SeqsUpTo(Cats, MaxItems)}

EpisodeIds == {"e1", "e2"}
Series(n, eps) ==
    [title |-> <<"Series ", ToString(n)>>, seriesNumber |-> n,
     seriesAvailableEpisodeCount |-> Len(eps), episodes |-> eps]
SeriesSet == {Series(n, eps) : n \in {1, 4}, eps \in SeqsUpTo(EpisodeIds, MaxEpisodes)}
Synopses == {[ninety |-> <<"Miss Marple investigates">>], [epg |-> <<"Marple">>]}
BrandDocs ==
    {Document([title |-> [brand |-> [title |-> <<"Marple">>, synopses |-> syn, series |-> ser]]],
              <<>>) :
        syn \in Synopses, ser \in SeqsUpTo(SeriesSet, MaxSeries)}

Programme(title, tier, content_info) ==
    [title |-> title, tier |-> tier, contentInfo |-> content_info,
     description |-> <<"About ">> \o title,
     imageTemplate |-> <<"https://img/">> \o title \o <<"/{width}x{height}">>,
     encodedProgrammeId |-> [letterA |-> "2a1234"],
     encodedEpisodeId |-> [letterA |-> "2a1234a0001"]]
Programmes ==
    {Programme(t, tier, ci) :
        t \in {<<"The ", "Chase">>, <<"Vera">>},
        tier \in {<<"FREE">>, <<"PAID">>},
        ci \in {<<"Series", " 1-3">>, <<"1h 30m">>}}
CategoryDocs ==
    {Document([category |-> [pathSegment |-> seg], programmes |-> progs], <<>>) :
        seg \in {"films", "drama-soaps"}, progs \in SeqsUpTo(Programmes, MaxProgrammes)}

EpisodePageUrls == {<<HTTPS, "www.itv.com", "/watch/vera/1a7314a0001">>}
EpisodePageDocs ==
    {Document(JsonNull, ids) : ids \in {<<>>, <<"1/7314/0001#001">>,
                                        <<"1/7314/0001#001", "2/0002#001">>}}
AnyDocs == HeroDocs \cup CategoriesDocs

\* the now/next response and the main schedule
LocalZones == {0, 60}
ChannelIds == {"ITV", "ITV2"}
Prog(title, detail, h, m) ==
    [displayTitle |-> title, detailedDisplayTitle |-> detail,
     start |-> [date |-> "2023-01-20", h |-> h, m |-> m, s |-> 0]]
SlotsOf(id) ==
    IF id = "ITV"
    THEN [now |-> Prog(<<"News">>, <<"At Ten">>, 22, 0), next |-> Prog(<<"Film">>, <<>>, 23, 30)]
    ELSE [now |-> Prog(<<"Quiz">>, <<>>, 23, 15), next |-> Prog(<<"Soap">>, <<"Ep 2">>, 0, 5)]
Channel(id, type) == [id |-> id, channelType |-> type, slots |-> SlotsOf(id)]
Channels == {Channel(id, t) : id \in ChannelIds, t \in {"simulcast", "fast"}}
BACKDROP == "https://img/backdrop.jpg"
NowNextData ==
    {[images |-> [backdrop |-> BACKDROP], channels |-> c] : c \in SeqsUpTo(Channels, MaxChannels)}
FullSlot(id) ==
    <<[programme_details |-> <<"Schedule of ", id>>, programmeTitle |-> <<id>>,
       orig_start |-> "2023-01-20T22:00Z", startTime |-> <<"22:00">>]>>
ScheduleEntries ==
    {[channel |-> [name |-> id], slot |-> sl] : id \in ChannelIds, sl \in {<<>>}}
    \cup {[channel |-> [name |-> id], slot |-> FullSlot(id)] : id \in ChannelIds}
Schedules == SeqsUpTo(ScheduleEntries, MaxSchedule)

\* the search response: the i-th result has its own data
SEARCH_TERM == "the chase"
EntityTypes == {"programme", "special", "video"}
ResultData(type, i) ==
    IF type = "programme"
    THEN [programmeTitle |-> <<"Programme ", ToString(i)>>,
          latestAvailableEpisode |->
              [imageHref |-> <<"https://img/p", ToString(i), "/", "{width}", "x", "{height}">>],
          synopsis |-> <<"About programme ", ToString(i)>>,
          legacyId |-> [apiEncoded |-> "1_" \o ToString(i)]]
    ELSE [specialTitle |-> <<"Special ", ToString(i)>>,
          imageHref |-> <<"https://img/s", ToString(i), "/", "{width}", "x", "{height}">>,
          synopsis |-> <<"About special ", ToString(i)>>,
          productionId |-> <<"1", "/", ToString(i), "#", "001">>]
Result(type, i) == [entityType |-> type, data |-> ResultData(type, i)]
ResultLists ==
    UNION {{[i \in 1..n |-> Result(types[i], i)] : types \in [1..n -> EntityTypes]} :
              n \in 0..MaxResults}
SearchData ==
    {JsonNull, [error |-> "bad request"]} \cup {[results |-> r] : r \in ResultLists}

----------------------------------------------------------------------------
(* The state *)

Gens == {"g1", "g2"}
NoGens == [g \in Gens |-> NoGen]

NoCall == [op |-> "none"]
NoFetch == [valid |-> FALSE, url |-> <<>>, at |-> 0]

IdleLive ==
    [pc |-> "idle", requests |-> <<>>, local_tz |-> 0,
     fetch |-> [what |-> "none", status |-> "none", error |-> None], input |-> <<>>,
     fanart_url |-> None, main_schedule |-> <<>>, channels |-> <<>>, idx |-> 0,
     error |-> None]

Init ==
    /\ now = 0
    /\ cached_programs = <<>>
    /\ lastFetch = NoFetch
    /\ call = NoCall
    /\ live = IdleLive
    /\ gens = NoGens

\* The host runs one navigation at a time: an operation is called when no
\* other is in progress, and what a navigation produced is dropped when the
\* navigation ends.
Idle == call = NoCall /\ live = IdleLive /\ gens = NoGens

NavigationEnds ==
    /\ ~Idle
    /\ live.pc \in {"idle", "returned", "raised"}
    /\ call' = NoCall
    /\ live' = IdleLive
    /\ gens' = NoGens
    /\ UNCHANGED <<now, cached_programs, lastFetch>>

\* The record of a run-to-completion operation that reads a page: its fetch,
\* the answer, the outcome, and (history) the clock and the last successful
\* fetch before it.
PageCall(op, args, url, resp, outcome) ==
    [op |-> op, args |-> args, requests |-> <<PageRequest(url)>>, fetch |-> resp,
     outcome |-> outcome, at |-> now, prev |-> lastFetch]

Fetched(url, resp) ==
    IF IsRaised(resp) THEN lastFetch ELSE [valid |-> TRUE, url |-> PageUrl(url), at |-> now]

----------------------------------------------------------------------------
(* The operations that run to completion *)

CallGetPageData ==
    /\ Idle
    /\ \E url \in PageUrls, resp \in Responses(AnyDocs) :
        /\ call' = PageCall("get_page_data", <<url>>, url, resp, get_page_data(url, resp))
        /\ lastFetch' = Fetched(url, resp)
        /\ UNCHANGED <<now, cached_programs, live, gens>>

CallMainPageItems ==
    /\ Idle
    /\ \E resp \in Responses(HeroDocs) :
        /\ call' = PageCall("main_page_items", <<>>, MAIN_URL, resp, main_page_items(resp))
        /\ lastFetch' = Fetched(MAIN_URL, resp)
        /\ UNCHANGED <<now, cached_programs, live, gens>>

CallEpisodes ==
    /\ Idle
    /\ \E url \in {<<"/watch/marple">>, <<HTTPS, "www.itv.com", "/watch/marple">>},
       resp \in Responses(BrandDocs) :
        /\ call' = PageCall("episodes", <<url>>, url, resp, episodes(url, resp))
        /\ lastFetch' = Fetched(url, resp)
        /\ UNCHANGED <<now, cached_programs, live, gens>>

CallCategories ==
    /\ Idle
    /\ \E resp \in Responses(CategoriesDocs) :
        /\ call' = PageCall("categories", <<>>, CATEGORIES_URL, resp, categories(resp))
        /\ lastFetch' = Fetched(CATEGORIES_URL, resp)
        /\ UNCHANGED <<now, cached_programs, live, gens>>

CallCategoryContent ==
    /\ Idle
    /\ \E url \in {<<"/watch/categories/films">>}, hide_payed \in BOOLEAN,
       resp \in Responses(CategoryDocs) :
        /\ call' = PageCall("category_content", <<url, hide_payed>>, url, resp,
                            category_content(url, hide_payed, resp))
        /\ lastFetch' = Fetched(url, resp)
        /\ UNCHANGED <<now, cached_programs, live, gens>>

CallGetPlaylistUrl ==
    /\ Idle
    /\ \E page_url \in EpisodePageUrls, resp \in Responses(EpisodePageDocs) :
        /\ call' = [op |-> "get_playlist_url_from_episode_page", args |-> <<page_url>>,
                    requests |-> <<PlaylistPageRequest(page_url)>>, fetch |-> resp,
                    outcome |-> get_playlist_url_from_episode_page(page_url, resp),
                    at |-> now, prev |-> lastFetch]
        /\ UNCHANGED <<now, cached_programs, lastFetch, live, gens>>

\* the clock
Tick ==
    /\ now + TickStep <= MaxTime
    /\ now' = now + TickStep
    /\ UNCHANGED <<cached_programs, lastFetch, call, live, gens>>

----------------------------------------------------------------------------
(* get_live_channels, step by step: every fetch blocks the call *)

\* lines 41-50: the call reads the local zone and requests the channels
LiveCall ==
    /\ Idle
    /\ \E tz \in LocalZones :
           live' = [IdleLive EXCEPT !.pc = "wait_nownext", !.local_tz = tz,
                                    !.requests = <<Request("nownext")>>]
    /\ UNCHANGED <<now, cached_programs, lastFetch, call, gens>>

\* AfterNowNext with the loop entered on an empty main schedule, the call of
\* get_live_schedule left out
AfterNowNextNoSchedule(frame, resp) ==
    IF IsRaised(resp)
    THEN [frame EXCEPT !.pc = "raised", !.error = resp.error, !.fetch = Note("nownext", resp)]
    ELSE [frame EXCEPT !.pc = "loop",
                       !.fetch = Note("nownext", resp),
                       !.requests = Append(@, Response("nownext")),
                       !.fanart_url = resp.value.images.backdrop,
                       !.input = resp.value.channels,
                       !.channels = resp.value.channels]

\* lines 45-54: the channels arrive (or the fetch raises); on arrival the
\* backdrop is read and get_live_schedule is called
AfterNowNext(frame, resp) ==
    IF IsRaised(resp)
    THEN [frame EXCEPT !.pc = "raised", !.error = resp.error, !.fetch = Note("nownext", resp)]
    ELSE [frame EXCEPT !.pc = "wait_schedule",
                       !.fetch = Note("nownext", resp),
                       !.requests = @ \o <<Response("nownext"), Request("schedule")>>,
                       !.fanart_url = resp.value.images.backdrop,
                       !.input = resp.value.channels]

LiveNowNextArrives ==
    /\ live.pc = "wait_nownext"
    /\ \E resp \in Responses(NowNextData) : live' = AfterNowNext(live, resp)
    /\ UNCHANGED <<now, cached_programs, lastFetch, call, gens>>

\* lines 54-56: the main schedule arrives (or get_live_schedule raises)
AfterSchedule(frame, resp) ==
    IF IsRaised(resp)
    THEN [frame EXCEPT !.pc = "raised", !.error = resp.error, !.fetch = Note("schedule", resp)]
    ELSE [frame EXCEPT !.pc = "loop",
                       !.fetch = Note("schedule", resp),
                       !.requests = Append(@, Response("schedule")),
                       !.main_schedule = resp.value,
                       !.channels = frame.input]

LiveScheduleArrives ==
    /\ live.pc = "wait_schedule"
    /\ \E resp \in Responses(Schedules) : live' = AfterSchedule(live, resp)
    /\ UNCHANGED <<now, cached_programs, lastFetch, call, gens>>

\* lines 58-91: one pass of the loop, on the channel in place
LiveLoop ==
    /\ live.pc = "loop"
    /\ live.idx < Len(live.channels)
    /\ live' = [live EXCEPT
                   !.idx = @ + 1,
                   !.channels[live.idx + 1] =
                       ProcessChannel(@, live.fanart_url, live.main_schedule, live.local_tz)]
    /\ UNCHANGED <<now, cached_programs, lastFetch, call, gens>>

\* line 92
LiveReturn ==
    /\ live.pc = "loop"
    /\ live.idx = Len(live.channels)
    /\ live' = [live EXCEPT !.pc = "returned"]
    /\ UNCHANGED <<now, cached_programs, lastFetch, call, gens>>

----------------------------------------------------------------------------
(* search: the host calls it, and reads the generator when it likes *)

\* calling the generator function runs none of its code
SearchCall(g) ==
    /\ call = NoCall /\ live = IdleLive
    /\ gens[g].state = "none"
    /\ gens' = [gens EXCEPT ![g] = [NoGen EXCEPT !.state = "created"]]
    /\ UNCHANGED <<now, cached_programs, lastFetch, call, live>>

\* the first next()
SearchFirstNext(g) ==
    /\ gens[g].state = "created"
    /\ \E resp \in Responses(SearchData) :
           gens' = [gens EXCEPT ![g] = SearchStart(@, SEARCH_TERM, resp)]
    /\ UNCHANGED <<now, cached_programs, lastFetch, call, live>>

\* a later next()
SearchNext(g) ==
    /\ gens[g].state = "suspended"
    /\ gens' = [gens EXCEPT ![g] = Resume(@)]
    /\ UNCHANGED <<now, cached_programs, lastFetch, call, live>>

----------------------------------------------------------------------------
(* The specifications *)

Next ==
    \/ CallGetPageData
    \/ CallMainPageItems
    \/ CallEpisodes
    \/ CallCategories
    \/ CallCategoryContent
    \/ CallGetPlaylistUrl
    \/ LiveCall
    \/ LiveNowNextArrives
    \/ LiveScheduleArrives
    \/ LiveLoop
    \/ LiveReturn
    \/ \E g \in Gens : SearchCall(g)
    \/ \E g \in Gens : SearchFirstNext(g)
    \/ \E g \in Gens : SearchNext(g)
    \/ NavigationEnds

Spec == Init /\ [][Next]_vars

\* get_page_data called again and again while the clock runs
NextCache == Tick \/ CallGetPageData \/ NavigationEnds

SpecCache == Init /\ [][NextCache]_vars

----------------------------------------------------------------------------
(* Properties *)

\* C1: a call of get_page_data for a page url that was fetched successfully
\* less than CACHE_TIME seconds before is answered from cached_programs and
\* makes no fetch.
C1_RepeatCallWithinExpiryDoesNotFetch ==
    (/\ call.op = "get_page_data"
     /\ call.prev.valid
     /\ call.prev.url = PageUrl(call.args[1])
     /\ call.at - call.prev.at < CACHE_TIME)
    => call.requests = <<>>

IsKnownType(result) == result.entityType \in {"programme", "special"}

\* the positions up to n of the results of a known entity type, in order
RECURSIVE KnownPositions(_, _)
KnownPositions(results, n) ==
    IF n = 0 THEN <<>>
    ELSE KnownPositions(results, n - 1) \o (IF IsKnownType(results[n]) THEN <<n>> ELSE <<>>)

TitleOf(result) ==
    IF result.entityType = "programme" THEN result.data.programmeTitle
    ELSE result.data.specialTitle

GotResults(f) == f.fetch.status = "returned" /\ "results" \in DOMAIN f.fetch.value

\* C2: for a response whose 'results' is a list, search yields one item per
\* result of entity type programme or special, in the order of the results;
\* a result of another type yields nothing and the results after it are
\* still processed.
C2_SearchSkipsUnknownTypes ==
    \A g \in Gens :
        LET f == gens[g]
            results == f.fetch.value.results
            known == KnownPositions(results, f.idx)
        IN  GotResults(f) =>
                /\ f.state \in {"suspended", "finished"}
                /\ f.state = "finished" => f.idx = Len(results)
                /\ f.state = "suspended" => f.idx \in 1..Len(results) /\ IsKnownType(results[f.idx])
                /\ Len(f.yielded) = Len(known)
                /\ \A k \in 1..Len(known) :
                       /\ f.yielded[k].entity_type = results[known[k]].entityType
                       /\ f.yielded[k].label = TitleOf(results[known[k]])
                /\ Len(f.warned) = f.idx - Len(known)

C2_Witness ==
    \E g \in Gens :
        LET f == gens[g]
        IN  /\ GotResults(f)
            /\ f.state = "finished"
            /\ Len(f.results) = 2
            /\ f.results[1].entityType = "video"
            /\ Len(f.yielded) = 1

\* C3: when get_json returns None, search yields nothing and ends normally.
C3_NoDataEndsSearch ==
    \A g \in Gens :
        LET f == gens[g]
        IN  (f.fetch.status = "returned" /\ f.fetch.value = JsonNull) =>
                /\ f.state = "finished"
                /\ f.yielded = <<>>
                /\ f.error = None

C3_Witness ==
    \E g \in Gens : gens[g].fetch.status = "returned" /\ gens[g].fetch.value = JsonNull

\* C4: in every operation an error raised by the fetch ends the operation
\* with that same error, and nothing was returned or yielded before it.
C4_FetchFailuresPropagate ==
    /\ (call.op # "none" /\ IsRaised(call.fetch)) =>
           /\ call.outcome.status = "raised"
           /\ call.outcome.error = call.fetch.error
           /\ "value" \notin DOMAIN call.outcome
           /\ "yielded" \in DOMAIN call.outcome => call.outcome.yielded = <<>>
    /\ live.fetch.status = "raised" =>
           /\ live.pc = "raised"
           /\ live.error = live.fetch.error
           /\ live.idx = 0 /\ live.channels = <<>>
    /\ \A g \in Gens :
           IsRaised(gens[g].fetch) =>
               /\ gens[g].state = "raised"
               /\ gens[g].error = gens[g].fetch.error
               /\ gens[g].yielded = <<>>

C4_Witness ==
    \E g, h \in Gens :
        /\ IsRaised(gens[g].fetch)
        /\ gens[g].fetch.error = "HTTPError"
        /\ gens[h].yielded # <<>>

\* C10: every item search yields for a result of entity type special takes
\* its label, title and thumb from the same result as its playlist url and
\* plot, whatever the results and however the reads of the generators
\* interleave.
C10_SpecialItemFromOneResult ==
    \A g \in Gens :
        LET f == gens[g]
        IN  \A k \in 1..Len(f.yielded) :
                LET item == f.yielded[k]
                    n == ToString(f.sources[k])
                IN  item.entity_type = "special" =>
                        /\ f.results[f.sources[k]].entityType = "special"
                        /\ item.label = <<"Special ", n>>
                        /\ item.info.title = <<"Special ", n>>
                        /\ item.params.name = <<"Special ", n>>
                        /\ item.art.thumb = <<"https://img/s", n, "/", "960", "x", "540">>
                        /\ item.info.plot = <<"About special ", n>>
                        /\ item.params.url =
                               <<"https://magni.itv.com/playlist/itvonline/ITV/",
                                 "1", "_", n, ".", "001">>

C10_Witness ==
    /\ gens["g1"].state = "suspended" /\ gens["g1"].idx = 1
    /\ gens["g1"].yielded[1].entity_type = "special"
    /\ gens["g2"].state = "suspended" /\ gens["g2"].idx = 2
    /\ Len(gens["g2"].yielded) = 2
    /\ \A k \in 1..2 : gens["g2"].yielded[k].entity_type = "special"

LIVE_FETCHES ==
    <<Request("nownext"), Response("nownext"), Request("schedule"), Response("schedule")>>

\* what a returned channel holds besides backdrop and slot
Rest(channel) == Without(Without(channel, "backdrop"), "slot")

\* C5: get_live_channels returns the channels of the now/next response, one
\* per input channel and in the same order, and every one carries backdrop
\* (the backdrop of the response) and slot, and no longer carries slots.
C5_ChannelsKeepOrderAndKeys ==
    live.pc \in {"loop", "returned"} =>
        /\ Len(live.channels) = Len(live.input)
        /\ \A i \in 1..live.idx :
               LET c == live.channels[i]
               IN  /\ Rest(c) = Without(live.input[i], "slots")
                   /\ {"backdrop", "slot"} \subseteq DOMAIN c
                   /\ "slots" \notin DOMAIN c
                   /\ c.backdrop = BACKDROP
        /\ live.pc = "returned" => live.idx = Len(live.input)

C5_Witness ==
    /\ live.pc = "returned"
    /\ Len(live.channels) = 2
    /\ live.channels[1].channelType = "simulcast"
    /\ live.channels[1].slot = FullSlot(live.channels[1].id)
    /\ live.channels[2].channelType = "fast"

\* C8: a simulcast channel gets as slot the slot of the first entry of the
\* main schedule whose channel name is the channel's id, when that slot is
\* not empty; every other channel gets two entries, built from slots.now
\* then slots.next, each with orig_start None.
C8_SlotFromMainScheduleOrNowNext ==
    live.pc \in {"loop", "returned"} =>
        \A i \in 1..live.idx :
            LET input == live.input[i]
                slot == live.channels[i].slot
                sched == live.main_schedule
                first == {j \in 1..Len(sched) :
                             /\ sched[j].channel.name = input.id
                             /\ \A k \in 1..(j - 1) : sched[k].channel.name # input.id}
            IN  IF /\ input.channelType = "simulcast"
                   /\ \E j \in first : sched[j].slot # <<>>
                THEN \A j \in first : slot = sched[j].slot
                ELSE /\ Len(slot) = 2
                     /\ slot[1].programmeTitle = input.slots.now.displayTitle
                     /\ slot[2].programmeTitle = input.slots.next.displayTitle
                     /\ slot[1].orig_start = None
                     /\ slot[2].orig_start = None

C8_Witness ==
    /\ live.pc = "returned"
    /\ Len(live.input) = 2
    /\ live.input[1].channelType = "simulcast"
    /\ live.input[2].channelType = "simulcast"
    /\ Len(live.main_schedule) = 2
    /\ live.main_schedule[1].channel.name = live.input[1].id
    /\ live.main_schedule[2].channel.name = live.input[1].id
    /\ live.main_schedule[1].slot # <<>>
    /\ live.main_schedule[2].slot = <<>>
    /\ live.channels[1].slot = live.main_schedule[1].slot
    /\ live.input[2].id # live.input[1].id
    /\ Len(live.channels[2].slot) = 2

\* C9: one call of get_live_channels requests the channels first, requests
\* the full schedule only after the channels have arrived, requests each
\* once, and processes no channel before both have arrived.
C9_FetchesInOrder ==
    /\ \E n \in 0..Len(LIVE_FETCHES) : live.requests = SubSeq(LIVE_FETCHES, 1, n)
    /\ (live.idx > 0 \/ live.pc \in {"loop", "returned"}) => live.requests = LIVE_FETCHES
    /\ live.pc = "wait_schedule" => live.requests = SubSeq(LIVE_FETCHES, 1, 3)
    /\ live.pc = "wait_nownext" => live.requests = SubSeq(LIVE_FETCHES, 1, 1)

C9_Witness ==
    /\ live.pc = "returned"
    /\ live.idx = 2
    /\ live.requests = LIVE_FETCHES

\* C6: episodes returns an empty list for a brand without series; otherwise
\* one object per series, in order, whose params hold the url passed in and
\* the series' seriesNumber as series_idx, and whose episodes list has one
\* entry per episode of the series.
C6_EpisodesOnePerSeries ==
    (call.op = "episodes" /\ ~IsRaised(call.fetch)) =>
        LET series == call.fetch.value.script.title.brand.series
            out == call.outcome
        IN  /\ out.status = "returned"
            /\ series = <<>> => out.value = <<>>
            /\ Len(out.value) = Len(series)
            /\ \A i \in 1..Len(series) :
                   /\ out.value[i].label = series[i].title
                   /\ out.value[i].params.url = call.args[1]
                   /\ out.value[i].params.series_idx = series[i].seriesNumber
                   /\ Len(out.value[i].episodes) = Len(series[i].episodes)
                   /\ \A e \in 1..Len(series[i].episodes) :
                          out.value[i].episodes[e][2] = series[i].episodes[e]

C6_Witness ==
    /\ call.op = "episodes"
    /\ call.args[1] = <<"/watch/marple">>
    /\ call.outcome.status = "returned"
    /\ Len(call.outcome.value) = 2
    /\ call.outcome.value[1].params.series_idx = 4
    /\ call.outcome.value[2].params.series_idx = 1
    /\ Len(call.outcome.value[1].episodes) = 1
    /\ Len(call.outcome.value[2].episodes) = 0

HasTier(prog, name) == \E t \in 1..Len(prog.tier) : prog.tier[t] = name

\* the positions of the programmes that are listed: all of them, or with
\* hide the free ones only
RECURSIVE ListedPositions(_, _, _)
ListedPositions(progs, n, hide) ==
    IF n = 0 THEN <<>>
    ELSE ListedPositions(progs, n - 1, hide)
         \o (IF ~hide \/ HasTier(progs[n], "FREE") THEN <<n>> ELSE <<>>)

EndsWithMarker(plot) == Len(plot) > 0 /\ plot[Len(plot)] = "[COLOR yellow]X premium[/COLOR]"

\* C7: with hide_payed false category_content yields one item per programme
\* of the page, in order; with hide_payed true one item per programme whose
\* tier contains FREE and none for another; an item of a programme whose
\* tier lacks FREE is yielded only with hide_payed false, and its plot then
\* ends with the premium marker.
C7_CategoryContentHidesPayed ==
    (call.op = "category_content" /\ ~IsRaised(call.fetch)) =>
        LET progs == call.fetch.value.script.programmes
            hide == call.args[2]
            listed == ListedPositions(progs, Len(progs), hide)
            items == call.outcome.yielded
        IN  /\ call.outcome.status = "exhausted"
            /\ Len(items) = Len(listed)
            /\ \A k \in 1..Len(listed) :
                   LET prog == progs[listed[k]]
                       show == items[k].show
                   IN  /\ show.label = prog.title
                       /\ EndsWithMarker(show.info.plot) <=> ~HasTier(prog, "FREE")
                       /\ ~HasTier(prog, "FREE") => ~hide

C7_Witness ==
    /\ call.op = "category_content"
    /\ call.args[2] = TRUE
    /\ ~IsRaised(call.fetch)
    /\ Len(call.fetch.value.script.programmes) = 2
    /\ ~HasTier(call.fetch.value.script.programmes[1], "FREE")
    /\ HasTier(call.fetch.value.script.programmes[2], "FREE")
    /\ Len(call.outcome.yielded) = 1

====
